---- MODULE Spec2Model ----
(***************************************************************************)
(* Model of the lock-free single-producer/single-consumer ring buffer      *)
(* SPSCQueue<T> (src/src/spsc_ringbuffer.h) and of the benchmark harness   *)
(* around it (producer_thread_func, consumer_thread_func, main).           *)
(*                                                                         *)
(* Every atomic load and store of the code is one step.  The copy of an    *)
(* element into or out of a slot is not atomic in the code (T is a 32-byte *)
(* struct), so it is two steps here: the element's low half, then its high *)
(* half.  The release store of a cursor and the acquire load that reads it *)
(* order the slot accesses around them exactly as the program text does,   *)
(* so the steps of one call run in the order given by PushOrder/PopOrder.  *)
(*                                                                         *)
(* size_t is modelled WordBits wide: every cursor computation is reduced   *)
(* modulo Word, as unsigned arithmetic is.                                 *)
(***************************************************************************)
EXTENDS Integers, Sequences, FiniteSets, TLC

\* ------------------------------------------------------------------ bounds
\* Width of size_t in the model.
WordBits == 4
\* Largest capacity handed to the constructor.
MaxRequested == 4
\* Sequence numbers the producer side generates: 1..MaxSeq.
MaxSeq == 6

\* Sequence numbers producer_thread_func generates: 1..MaxHarnessSeq.
MaxHarnessSeq == 3
\* Largest msgs_per_sec and total_seconds given to the harness.
MaxRate == 2
MaxSeconds == 2
\* Sequence numbers offered while a third thread calls the accessors:
\* 1..MaxObservedSeq.
MaxObservedSeq == 3
\* Sequence numbers pushed after the cursors wrapped: the wraparound scenario
\* enqueues 1..Word + MaxPastWrap.
MaxPastWrap == 3

Word == 2 ^ WordBits

\* ------------------------------------------------------ the harness's limits
\* main: the largest msgs_per_sec and total_seconds it accepts, the smallest
\* and the largest buffer power, and the values it uses with no argument.
RateLimit == 10000000
SecondsLimit == 3600
PowMin == 10
PowMax == 24
DefaultRate == 500000
DefaultSeconds == 5
\* size_t buf_pow2 = 1 << 16
DefaultPow == 16

VARIABLES
    \* SPSCQueue object
    qstate,      \* "unbuilt", "constructed", "aborted" (assert), "bad_alloc"
    requested,   \* the constructor's argument capacity_pow2
    capacity,    \* SPSCQueue::capacity
    mask,        \* SPSCQueue::mask
    buffer,      \* SPSCQueue::buffer, slot index -> [lo, hi]
    head,        \* SPSCQueue::head (consumer index)
    tail,        \* SPSCQueue::tail (producer index)
    \* the thread on the producer side, inside try_push
    ppc,         \* its position
    pt,          \* try_push: local t
    pitem,       \* try_push: parameter item
    pushRes,     \* try_push: returned value
    \* the thread on the consumer side, inside try_pop
    cpc,         \* its position
    ph,          \* try_pop: local h
    out,         \* try_pop: parameter out, [lo, hi]
    popRes,      \* try_pop: returned value
    \* the thread that calls approx_size
    mpc,         \* its position
    morder,      \* which operand of the subtraction was loaded first
    mfirst,      \* the value of that first load
    approx,      \* approx_size: returned value
    emptyRes,    \* empty: returned value
    capRes,      \* get_capacity: returned value
    mowner,      \* accessors: the calling thread
    \* history
    enq,         \* items of the try_push calls that stored tail, in order
    deq,         \* values of out of the try_pop calls that completed, in order
    \* the benchmark harness
    g_run,         \* std::atomic<bool> g_run
    seq,           \* producer_thread_func: seq
    nlat,          \* consumer_thread_func: latencies_ns.size()
    max_collect,   \* consumer_thread_func: max_collect (main: max_samples)
    msgs_per_sec,  \* main: msgs_per_sec
    total_seconds, \* main: total_seconds
    isec,          \* main: i of the monitoring loop
    exit_code,     \* main: returned value, -1 while main runs
    argv,          \* main: argv[1..argc-1]
    \* the stress scenario
    stressN        \* how many sequence numbers the producer enqueues

qvars == <<qstate, requested, capacity, mask, buffer, head, tail>>
pvars == <<ppc, pt, pitem, pushRes>>
cvars == <<cpc, ph, out, popRes>>
mlocals == <<morder, mfirst, approx, emptyRes, capRes, mowner>>
mvars == <<mpc, mlocals>>
hvars == <<enq, deq>>
tvars == <<g_run, seq, nlat, max_collect, msgs_per_sec, total_seconds, isec,
          exit_code, argv, stressN>>
vars == <<qvars, pvars, cvars, mvars, hvars, tvars>>

\* ------------------------------------------------------- unsigned arithmetic
\* a + 1 on size_t
Inc(a) == (a + 1) % Word

\* a - b on size_t
Sub(a, b) == (a - b + Word) % Word

RECURSIVE BitAnd(_, _)
\* a & b
BitAnd(a, b) ==
    IF a = 0 \/ b = 0 THEN 0
    ELSE (a % 2) * (b % 2) + 2 * BitAnd(a \div 2, b \div 2)

\* ------------------------------------------------------------------- slots
\* Content of memory that was allocated and never written.
Uninit == 0

\* sizeof(T), in halves of an element.
ElemSize == Cardinality({"lo", "hi"})

\* An element whose two halves come from the same item.
Whole(item) == [lo |-> item, hi |-> item]

\* Reading half of an element: a written half reads as written, a half that
\* was never written reads as any bit pattern.
ReadHalf(v) == IF v = Uninit THEN 0..MaxSeq ELSE {v}

\* cursor & mask: the slot of a cursor value
IndexByCapacity(c) == BitAnd(c, capacity)
Index(c) == BitAnd(c, mask)

\* buffer[i].half read: outside the allocation any bit pattern comes back.
SlotRead(i, half) ==
    IF i \in DOMAIN buffer THEN ReadHalf(buffer[i][half]) ELSE 0..MaxSeq

\* buffer[i].half = v: a write outside the allocation lands in memory that is
\* not the queue's and leaves the slots as they are.
SlotWrite(i, half, v) ==
    IF i \in DOMAIN buffer THEN [buffer EXCEPT ![i][half] = v] ELSE buffer

\* ------------------------------------------------------------- construction
\* The constructor's assertion, (capacity_pow2 & (capacity_pow2 - 1)) == 0.
AssertHolds(c) == BitAnd(c, Sub(c, 1)) = 0

\* capacity * sizeof(T), computed on size_t, and the slots that many bytes hold.
AllocSize(c) == (c * ElemSize) % Word
AllocSlots(c) == AllocSize(c) \div ElemSize

\* The constructor without its two stores of 0: head and tail hold whatever
\* the memory held.
ConstructorRunCursorsNotStored ==
    /\ qstate = "unbuilt"
    /\ \E ndebug \in BOOLEAN, allocated \in BOOLEAN :
         IF ~ndebug /\ ~AssertHolds(requested)
         THEN /\ qstate' = "aborted"
              /\ UNCHANGED <<capacity, mask, buffer, head, tail>>
         ELSE IF ~allocated
         THEN /\ qstate' = "bad_alloc"
              /\ UNCHANGED <<capacity, mask, buffer, head, tail>>
         ELSE /\ qstate' = "constructed"
              /\ capacity' = requested
              /\ mask' = Sub(requested, 1)
              /\ buffer' = [i \in 0..(AllocSlots(requested) - 1) |-> Whole(Uninit)]
              /\ head' \in 0..1
              /\ tail' \in 0..1
    /\ UNCHANGED requested

\* SPSCQueue::SPSCQueue(capacity_pow2).  assert() is compiled out under
\* NDEBUG (the Release build) and aborts the process otherwise;
\* aligned_alloc may return null, and then the constructor throws bad_alloc.
ConstructorRun ==
    /\ qstate = "unbuilt"
    /\ \E ndebug \in BOOLEAN, allocated \in BOOLEAN :
         IF ~ndebug /\ ~AssertHolds(requested)
         THEN /\ qstate' = "aborted"
              /\ UNCHANGED <<capacity, mask, buffer, head, tail>>
         ELSE IF ~allocated
         THEN /\ qstate' = "bad_alloc"
              /\ UNCHANGED <<capacity, mask, buffer, head, tail>>
         ELSE /\ qstate' = "constructed"
              /\ capacity' = requested
              /\ mask' = Sub(requested, 1)
              /\ buffer' = [i \in 0..(AllocSlots(requested) - 1) |-> Whole(Uninit)]
              /\ head' = 0
              /\ tail' = 0
    /\ UNCHANGED requested

\* A queue is constructed outside the harness.
Construct ==
    /\ ConstructorRun
    /\ UNCHANGED <<pvars, cvars, mvars, hvars, tvars>>

\* buffer when aligned_alloc returned a null pointer: no slot at all.
NullBuffer == << >>

\* SPSCQueue::SPSCQueue(capacity_pow2) of src/unnamed/part_003: the same
\* constructor without the test of what aligned_alloc returned.  The object
\* is constructed either way, with a null buffer when the allocation failed.
ConstructorRunUnchecked ==
    /\ qstate = "unbuilt"
    /\ \E ndebug \in BOOLEAN, allocated \in BOOLEAN :
         IF ~ndebug /\ ~AssertHolds(requested)
         THEN /\ qstate' = "aborted"
              /\ UNCHANGED <<capacity, mask, buffer, head, tail>>
         ELSE /\ qstate' = "constructed"
              /\ capacity' = requested
              /\ mask' = Sub(requested, 1)
              /\ buffer' = (IF allocated
                            THEN [i \in 0..(AllocSlots(requested) - 1) |->
                                      Whole(Uninit)]
                            ELSE NullBuffer)
              /\ head' = 0
              /\ tail' = 0
    /\ UNCHANGED requested

ConstructUnchecked ==
    /\ ConstructorRunUnchecked
    /\ UNCHANGED <<pvars, cvars, mvars, hvars, tvars>>

\* ---------------------------------------------------------------- try_push
\* The fullness test of try_push: nt - head > capacity.
IsFullOffByOne(nt, h) == Sub(nt, h) > capacity + 1
IsFullNonStrict(nt, h) == Sub(nt, h) >= capacity
IsFullUnwrapped(nt, h) == nt - h > capacity
IsFull(nt, h) == Sub(nt, h) > capacity

\* The steps of try_push after the fullness test, in program order: the slot
\* copy (two halves), then the release store of tail.
PushOrderPublishFirst == <<"push_store_tail", "push_write_lo", "push_write_hi">>
PushOrder == <<"push_write_lo", "push_write_hi", "push_store_tail">>

\* The position after `step` in `order`; `ret` after the last one.
StepAfter(order, step, ret) ==
    LET k == CHOOSE j \in 1..Len(order) : order[j] = step
    IN  IF k = Len(order) THEN ret ELSE order[k + 1]

\* buffer[t & mask]
PushSlotNext == Index(Inc(pt))
PushSlot == Index(pt)

\* try_push moves past `step`; after its last step it returns true.
PushAdvance(step) ==
    LET n == StepAfter(PushOrder, step, "push_ret")
    IN  /\ ppc' = n
        /\ pushRes' = (IF n = "push_ret" THEN TRUE ELSE pushRes)

\* size_t t = tail.load(relaxed)
PushLoadTail ==
    /\ ppc = "push_load_tail"
    /\ pt' = tail
    /\ ppc' = "push_check"
    /\ UNCHANGED <<qvars, pitem, pushRes, cvars, mvars, hvars, tvars>>

\* if (nt - head.load(acquire) > capacity) return false;
PushCheckCopyFirst ==
    /\ ppc = "push_check"
    /\ buffer' = SlotWrite(PushSlot, "lo", pitem)
    /\ IF IsFull(Inc(pt), head)
       THEN ppc' = "push_ret" /\ pushRes' = FALSE
       ELSE ppc' = PushOrder[1] /\ UNCHANGED pushRes
    /\ UNCHANGED <<qstate, requested, capacity, mask, head, tail>>
    /\ UNCHANGED <<pt, pitem, cvars, mvars, hvars, tvars>>

PushCheckWaitsForRoom ==
    /\ ppc = "push_check"
    /\ ~IsFull(Inc(pt), head)
    /\ ppc' = PushOrder[1]
    /\ UNCHANGED <<qvars, pt, pitem, pushRes, cvars, mvars, hvars, tvars>>

PushCheck ==
    /\ ppc = "push_check"
    /\ IF IsFull(Inc(pt), head)
       THEN ppc' = "push_ret" /\ pushRes' = FALSE
       ELSE ppc' = PushOrder[1] /\ UNCHANGED pushRes
    /\ UNCHANGED <<qvars, pt, pitem, cvars, mvars, hvars, tvars>>

\* buffer[t & mask] = item, low half
PushWriteLo ==
    /\ ppc = "push_write_lo"
    /\ buffer' = SlotWrite(PushSlot, "lo", pitem)
    /\ PushAdvance("push_write_lo")
    /\ UNCHANGED <<qstate, requested, capacity, mask, head, tail>>
    /\ UNCHANGED <<pt, pitem, cvars, mvars, hvars, tvars>>

\* buffer[t & mask] = item, high half
PushWriteHi ==
    /\ ppc = "push_write_hi"
    /\ buffer' = SlotWrite(PushSlot, "hi", pitem)
    /\ PushAdvance("push_write_hi")
    /\ UNCHANGED <<qstate, requested, capacity, mask, head, tail>>
    /\ UNCHANGED <<pt, pitem, cvars, mvars, hvars, tvars>>

\* tail.store(nt, release)
PushStoreTail ==
    /\ ppc = "push_store_tail"
    /\ tail' = Inc(pt)
    /\ enq' = Append(enq, pitem)
    /\ PushAdvance("push_store_tail")
    /\ UNCHANGED <<qstate, requested, capacity, mask, buffer, head>>
    /\ UNCHANGED <<pt, pitem, cvars, mvars, deq, tvars>>

\* The fullness test as the specification words it: write_cursor -
\* read_cursor == capacity; and the test step of try_push made with it.
IsFullBySpec(t, h) == Sub(t, h) = capacity

PushCheckBySpec ==
    /\ ppc = "push_check"
    /\ IF IsFullBySpec(pt, head)
       THEN ppc' = "push_ret" /\ pushRes' = FALSE
       ELSE ppc' = PushOrder[1] /\ UNCHANGED pushRes
    /\ UNCHANGED <<qvars, pt, pitem, cvars, mvars, hvars, tvars>>

\* The positions of a try_push call in program order, and how far along a
\* position is.
PushPath == <<"push_load_tail", "push_check">> \o PushOrder \o <<"push_ret">>
PushRank(pc) == CHOOSE j \in 1..Len(PushPath) : PushPath[j] = pc

TryPush == PushLoadTail \/ PushCheck \/ PushWriteLo \/ PushWriteHi \/ PushStoreTail

\* ----------------------------------------------------------------- try_pop
\* The emptiness test of try_pop: h == tail.
IsEmptyOffByOne(h, t) == Inc(h) = t
IsEmpty(h, t) == h = t

\* The steps of try_pop after the emptiness test, in program order: the slot
\* copy (two halves), then the release store of head.
PopOrderReleaseFirst == <<"pop_store_head", "pop_read_lo", "pop_read_hi">>
PopOrder == <<"pop_read_lo", "pop_read_hi", "pop_store_head">>

\* buffer[h & mask]
PopSlotNext == Index(Inc(ph))
PopSlot == Index(ph)

\* try_pop moves past `step` with `o` in out; after its last step it
\* returns true.
PopAdvance(step, o) ==
    LET n == StepAfter(PopOrder, step, "pop_ret")
    IN  /\ cpc' = n
        /\ out' = o
        /\ popRes' = (IF n = "pop_ret" THEN TRUE ELSE popRes)
        /\ deq' = (IF n = "pop_ret" THEN Append(deq, o) ELSE deq)

\* size_t h = head.load(relaxed)
PopLoadHead ==
    /\ cpc = "pop_load_head"
    /\ ph' = head
    /\ cpc' = "pop_check"
    /\ UNCHANGED <<qvars, pvars, out, popRes, mvars, hvars, tvars>>

\* if (h == tail.load(acquire)) return false;
PopCheckCopyFirst ==
    /\ cpc = "pop_check"
    /\ \E v \in SlotRead(PopSlot, "lo") : out' = [out EXCEPT !.lo = v]
    /\ IF IsEmpty(ph, tail)
       THEN cpc' = "pop_ret" /\ popRes' = FALSE
       ELSE cpc' = PopOrder[1] /\ UNCHANGED popRes
    /\ UNCHANGED <<qvars, pvars, ph, mvars, hvars, tvars>>

PopCheck ==
    /\ cpc = "pop_check"
    /\ IF IsEmpty(ph, tail)
       THEN cpc' = "pop_ret" /\ popRes' = FALSE
       ELSE cpc' = PopOrder[1] /\ UNCHANGED popRes
    /\ UNCHANGED <<qvars, pvars, ph, out, mvars, hvars, tvars>>

\* out = buffer[h & mask], low half
PopReadLo ==
    /\ cpc = "pop_read_lo"
    /\ \E v \in SlotRead(PopSlot, "lo") :
         PopAdvance("pop_read_lo", [out EXCEPT !.lo = v])
    /\ UNCHANGED <<qvars, pvars, ph, mvars, enq, tvars>>

\* out = buffer[h & mask], high half
PopReadHiClearsSlot ==
    /\ cpc = "pop_read_hi"
    /\ \E v \in SlotRead(PopSlot, "hi") :
         PopAdvance("pop_read_hi", [out EXCEPT !.hi = v])
    /\ buffer' = SlotWrite(PopSlot, "hi", Uninit)
    /\ UNCHANGED <<qstate, requested, capacity, mask, head, tail>>
    /\ UNCHANGED <<pvars, ph, mvars, enq, tvars>>

PopReadHi ==
    /\ cpc = "pop_read_hi"
    /\ \E v \in SlotRead(PopSlot, "hi") :
         PopAdvance("pop_read_hi", [out EXCEPT !.hi = v])
    /\ UNCHANGED <<qvars, pvars, ph, mvars, enq, tvars>>

PopStoreHeadNoAdvance ==
    /\ cpc = "pop_store_head"
    /\ head' = ph
    /\ PopAdvance("pop_store_head", out)
    /\ UNCHANGED <<qstate, requested, capacity, mask, buffer, tail>>
    /\ UNCHANGED <<pvars, ph, mvars, enq, tvars>>

\* head.store(h + 1, release)
PopStoreHead ==
    /\ cpc = "pop_store_head"
    /\ head' = Inc(ph)
    /\ PopAdvance("pop_store_head", out)
    /\ UNCHANGED <<qstate, requested, capacity, mask, buffer, tail>>
    /\ UNCHANGED <<pvars, ph, mvars, enq, tvars>>

\* The positions of a try_pop call in program order, and how far along a
\* position is.
PopPath == <<"pop_load_head", "pop_check">> \o PopOrder \o <<"pop_ret">>
PopRank(pc) == CHOOSE j \in 1..Len(PopPath) : PopPath[j] = pc

TryPop == PopLoadHead \/ PopCheck \/ PopReadLo \/ PopReadHi \/ PopStoreHead

\* ------------------------------------------------------------- approx_size
\* return tail.load(acquire) - head.load(acquire);
\* The two operands of the subtraction are unsequenced: the build decides
\* which load runs first.
ApproxFirstLoad ==
    /\ mpc = "approx_first"
    /\ \E o \in {"tail_first", "head_first"} :
         /\ morder' = o
         /\ mfirst' = (IF o = "tail_first" THEN tail ELSE head)
    /\ mpc' = "approx_second"
    /\ UNCHANGED <<qvars, pvars, cvars, approx, emptyRes, capRes,
                   mowner, hvars, tvars>>

ApproxSecondLoadSwapped ==
    /\ mpc = "approx_second"
    /\ approx' = (IF morder = "tail_first" THEN Sub(head, mfirst)
                                         ELSE Sub(mfirst, tail))
    /\ mpc' = "approx_ret"
    /\ UNCHANGED <<qvars, pvars, cvars, morder, mfirst, emptyRes, capRes,
                   mowner, hvars, tvars>>

ApproxSecondLoad ==
    /\ mpc = "approx_second"
    /\ approx' = (IF morder = "tail_first" THEN Sub(mfirst, head)
                                         ELSE Sub(tail, mfirst))
    /\ mpc' = "approx_ret"
    /\ UNCHANGED <<qvars, pvars, cvars, morder, mfirst, emptyRes, capRes,
                   mowner, hvars, tvars>>

ApproxSize == ApproxFirstLoad \/ ApproxSecondLoad

\* ------------------------------------------------- empty and get_capacity
\* return head.load(acquire) == tail.load(acquire);  as in approx_size, the
\* two loads are unsequenced operands and each is one step.
EmptyFirstLoad ==
    /\ mpc = "empty_first"
    /\ \E o \in {"tail_first", "head_first"} :
         /\ morder' = o
         /\ mfirst' = (IF o = "tail_first" THEN tail ELSE head)
    /\ mpc' = "empty_second"
    /\ UNCHANGED <<qvars, pvars, cvars, approx, emptyRes, capRes,
                   mowner, hvars, tvars>>

EmptySecondLoadDrains ==
    /\ mpc = "empty_second"
    /\ emptyRes' = (IF morder = "tail_first" THEN head = mfirst
                                            ELSE mfirst = tail)
    /\ head' = tail
    /\ mpc' = "empty_ret"
    /\ UNCHANGED <<qstate, requested, capacity, mask, buffer, tail>>
    /\ UNCHANGED <<pvars, cvars, morder, mfirst, approx, capRes,
                   mowner, hvars, tvars>>

EmptySecondLoad ==
    /\ mpc = "empty_second"
    /\ emptyRes' = (IF morder = "tail_first" THEN head = mfirst
                                            ELSE mfirst = tail)
    /\ mpc' = "empty_ret"
    /\ UNCHANGED <<qvars, pvars, cvars, morder, mfirst, approx, capRes,
                   mowner, hvars, tvars>>

Empty == EmptyFirstLoad \/ EmptySecondLoad

\* return capacity;
GetCapacity ==
    /\ mpc = "cap_read"
    /\ capRes' = capacity
    /\ mpc' = "cap_ret"
    /\ UNCHANGED <<qvars, pvars, cvars, morder, mfirst, approx, emptyRes,
                   mowner, hvars, tvars>>

\* The first step of each accessor, and the position at which each has
\* returned.
AccessorEntries == {"approx_first", "empty_first", "cap_read"}
AccessorRets == {"approx_ret", "empty_ret", "cap_ret"}

Accessors == ApproxSize \/ Empty \/ GetCapacity

\* ------------------------------------------------ the threads using a queue
\* The producer thread calls try_push; items carry sequence numbers 1, 2, ...
\* and a rejected item is offered again.
ProducerCall ==
    /\ qstate = "constructed"
    /\ ppc = "idle"
    /\ Len(enq) < MaxSeq
    /\ pitem' = Len(enq) + 1
    /\ ppc' = "push_load_tail"
    /\ UNCHANGED <<qvars, pt, pushRes, cvars, mvars, hvars, tvars>>

\* The call's locals and its result end with the call.
ProducerReturn ==
    /\ ppc = "push_ret"
    /\ ppc' = "idle" /\ pt' = 0 /\ pitem' = 0 /\ pushRes' = FALSE
    /\ UNCHANGED <<qvars, cvars, mvars, hvars, tvars>>

\* The consumer thread calls try_pop.
ConsumerCall ==
    /\ qstate = "constructed"
    /\ cpc = "idle"
    /\ cpc' = "pop_load_head"
    /\ UNCHANGED <<qvars, pvars, ph, out, popRes, mvars, hvars, tvars>>

\* out is the caller's object and outlives the call.
ConsumerReturn ==
    /\ cpc = "pop_ret"
    /\ cpc' = "idle" /\ ph' = 0 /\ popRes' = FALSE
    /\ UNCHANGED <<qvars, pvars, out, mvars, hvars, tvars>>

\* A third thread calls approx_size.
MonitorCall ==
    /\ qstate = "constructed"
    /\ mpc = "idle"
    /\ mpc' = "approx_first"
    /\ UNCHANGED <<qvars, pvars, cvars, mlocals, hvars, tvars>>

MonitorReturn ==
    /\ mpc = "approx_ret"
    /\ mpc' = "idle" /\ morder' = "tail_first" /\ mfirst' = 0 /\ approx' = 0
    /\ UNCHANGED <<qvars, pvars, cvars, emptyRes, capRes, mowner, hvars,
                   tvars>>

\* A caller of the accessors: it calls one of them, and holds the returned
\* value until it lets go of it.
ObserverCall ==
    /\ qstate = "constructed"
    /\ mpc = "idle"
    /\ mpc' \in AccessorEntries
    /\ UNCHANGED <<qvars, pvars, cvars, mlocals, hvars, tvars>>

ObserverReturn ==
    /\ mpc \in AccessorRets
    /\ mpc' = "idle" /\ morder' = "tail_first" /\ mfirst' = 0 /\ approx' = 0
    /\ emptyRes' = FALSE /\ capRes' = 0 /\ UNCHANGED mowner
    /\ UNCHANGED <<qvars, pvars, cvars, hvars, tvars>>

Observer == ObserverCall \/ Accessors \/ ObserverReturn

Producer == ProducerCall \/ TryPush \/ ProducerReturn
Consumer == ConsumerCall \/ TryPop \/ ConsumerReturn
Monitor == MonitorCall \/ ApproxSize \/ MonitorReturn

\* --------------------------------------------------------------- the harness
\* producer_thread_func: while (run_flag.load(relaxed)) { m.seq = seq++; ...
\* The model generates sequence numbers up to MaxHarnessSeq.
ProdLoop ==
    /\ ppc = "loop"
    /\ IF g_run
       THEN /\ seq <= MaxHarnessSeq
            /\ pitem' = seq
            /\ seq' = seq + 1
            /\ ppc' = "push_load_tail"
       ELSE /\ ppc' = "done"
            /\ UNCHANGED <<pitem, seq>>
    /\ UNCHANGED <<qvars, pt, pushRes, cvars, mvars, hvars>>
    /\ UNCHANGED <<g_run, nlat, max_collect, msgs_per_sec, total_seconds, isec,
                   exit_code, argv, stressN>>

\* producer_thread_func with `if (!q.try_push(m)) sleep_for(1us);`: a
\* rejected message is given up.
ProdAfterPushNoRetry ==
    /\ ppc = "push_ret"
    /\ ppc' = "loop" /\ pt' = 0 /\ pitem' = 0 /\ pushRes' = FALSE
    /\ UNCHANGED <<qvars, cvars, mvars, hvars, tvars>>

\* producer_thread_func: while (!q.try_push(m)) sleep_for(1us);  then the
\* pacing sleep and back to the loop test.
ProdAfterPush ==
    /\ ppc = "push_ret"
    /\ IF pushRes
       THEN ppc' = "loop" /\ pt' = 0 /\ pitem' = 0 /\ pushRes' = FALSE
       ELSE ppc' = "push_load_tail" /\ pt' = 0 /\ UNCHANGED <<pitem, pushRes>>
    /\ UNCHANGED <<qvars, cvars, mvars, hvars, tvars>>

ProducerThread == ProdLoop \/ TryPush \/ ProdAfterPush

\* consumer_thread_func: while (run_flag.load(relaxed)) { if (!q.try_pop(m)) ...
ConsLoop ==
    /\ cpc = "loop"
    /\ cpc' = (IF g_run THEN "pop_load_head" ELSE "done")
    /\ UNCHANGED <<qvars, pvars, ph, out, popRes, mvars, hvars, tvars>>

\* consumer_thread_func with an unconditional latencies_ns.push_back(latency).
ConsAfterPopUnbounded ==
    /\ cpc = "pop_ret"
    /\ nlat' = (IF popRes THEN nlat + 1 ELSE nlat)
    /\ cpc' = "loop" /\ ph' = 0 /\ popRes' = FALSE
    /\ UNCHANGED <<qvars, pvars, out, mvars, hvars>>
    /\ UNCHANGED <<g_run, seq, max_collect, msgs_per_sec, total_seconds, isec,
                   exit_code, argv, stressN>>

\* consumer_thread_func with `if (!q.try_pop(m)) break;`: the consumer
\* returns when it finds the queue empty.
ConsAfterPopStopsOnEmpty ==
    /\ cpc = "pop_ret"
    /\ nlat' = (IF popRes /\ nlat < max_collect THEN nlat + 1 ELSE nlat)
    /\ cpc' = (IF popRes THEN "loop" ELSE "done") /\ ph' = 0 /\ popRes' = FALSE
    /\ UNCHANGED <<qvars, pvars, out, mvars, hvars>>
    /\ UNCHANGED <<g_run, seq, max_collect, msgs_per_sec, total_seconds, isec,
                   exit_code, argv, stressN>>

\* consumer_thread_func: after try_pop: yield and continue when it failed,
\* else take the latency sample (at most max_collect of them) and parse.
ConsAfterPop ==
    /\ cpc = "pop_ret"
    /\ nlat' = (IF popRes /\ nlat < max_collect THEN nlat + 1 ELSE nlat)
    /\ cpc' = "loop" /\ ph' = 0 /\ popRes' = FALSE
    /\ UNCHANGED <<qvars, pvars, out, mvars, hvars>>
    /\ UNCHANGED <<g_run, seq, max_collect, msgs_per_sec, total_seconds, isec,
                   exit_code, argv, stressN>>

ConsumerThread == ConsLoop \/ TryPop \/ ConsAfterPop

\* sigint_handler: g_run.store(false, release)
SigInt ==
    /\ mpc \notin {"parse_args", "exit"}
    /\ g_run
    /\ g_run' = FALSE
    /\ UNCHANGED <<qvars, pvars, cvars, mvars, hvars>>
    /\ UNCHANGED <<seq, nlat, max_collect, msgs_per_sec, total_seconds, isec,
                   exit_code, argv, stressN>>

\* main: what every step of main leaves alone
MainFrame ==
    UNCHANGED <<pt, pitem, pushRes, ph, out, popRes, hvars, seq, nlat,
                msgs_per_sec, total_seconds, argv, stressN>>

\* main: SPSCQueue<RawMsg> q(buf_pow2); an exception ends main with 1, a
\* failed assert aborts the process (status 134).
MainConstruct ==
    /\ mpc = "construct"
    /\ ConstructorRun
    /\ mpc' = (IF qstate' = "constructed" THEN "start_prod" ELSE "exit")
    /\ exit_code' = (IF qstate' = "constructed" THEN exit_code
                     ELSE IF qstate' = "bad_alloc" THEN 1 ELSE 134)
    /\ MainFrame
    /\ UNCHANGED <<ppc, cpc, mlocals, g_run, max_collect, isec>>

\* main: max_samples = msgs_per_sec * total_seconds / 2; std::thread prod(...)
MainStartProducer ==
    /\ mpc = "start_prod"
    /\ max_collect' = (msgs_per_sec * total_seconds) \div 2
    /\ ppc' = "loop"
    /\ mpc' = "start_cons"
    /\ MainFrame
    /\ UNCHANGED <<qvars, cpc, mlocals, g_run, isec, exit_code>>

\* main: std::thread cons(...)
MainStartConsumer ==
    /\ mpc = "start_cons"
    /\ cpc' = "loop"
    /\ mpc' = "mon_check"
    /\ isec' = 0
    /\ MainFrame
    /\ UNCHANGED <<qvars, ppc, mlocals, g_run, max_collect,
                   exit_code>>

\* main: for (i = 0; i < total_seconds && g_run.load(acquire); ++i) { sleep 1s;
MainMonitorCheck ==
    /\ mpc = "mon_check"
    /\ mpc' = (IF isec < total_seconds /\ g_run THEN "approx_first" ELSE "stop")
    /\ MainFrame
    /\ UNCHANGED <<qvars, ppc, cpc, mlocals, g_run, max_collect,
                   isec, exit_code>>

\* main: approx = q.approx_size(); print; ++i
MainMonitorPrint ==
    /\ mpc = "approx_ret"
    /\ isec' = isec + 1
    /\ mpc' = "mon_check" /\ morder' = "tail_first" /\ mfirst' = 0 /\ approx' = 0
    /\ MainFrame
    /\ UNCHANGED mowner
    /\ UNCHANGED <<qvars, ppc, cpc, emptyRes, capRes, g_run, max_collect,
                   exit_code>>

\* main with g_run.store(!g_run.load()) after the monitor loop.
MainStopToggles ==
    /\ mpc = "stop"
    /\ g_run' = ~g_run
    /\ mpc' = "join_prod"
    /\ MainFrame
    /\ UNCHANGED <<qvars, ppc, cpc, mlocals, max_collect, isec,
                   exit_code>>

\* main: g_run.store(false, release)
MainStop ==
    /\ mpc = "stop"
    /\ g_run' = FALSE
    /\ mpc' = "join_prod"
    /\ MainFrame
    /\ UNCHANGED <<qvars, ppc, cpc, mlocals, max_collect, isec,
                   exit_code>>

\* main: prod.join()
MainJoinProducer ==
    /\ mpc = "join_prod"
    /\ ppc = "done"
    /\ mpc' = "join_cons"
    /\ MainFrame
    /\ UNCHANGED <<qvars, ppc, cpc, mlocals, g_run, max_collect,
                   isec, exit_code>>

\* main without cons.join(): it goes on to the report while the consumer
\* thread may still be running.
MainJoinConsumerNoWait ==
    /\ mpc = "join_cons"
    /\ mpc' = "report"
    /\ MainFrame
    /\ UNCHANGED <<qvars, ppc, cpc, mlocals, g_run, max_collect,
                   isec, exit_code>>

\* main: cons.join()
MainJoinConsumer ==
    /\ mpc = "join_cons"
    /\ cpc = "done"
    /\ mpc' = "report"
    /\ MainFrame
    /\ UNCHANGED <<qvars, ppc, cpc, mlocals, g_run, max_collect,
                   isec, exit_code>>

\* main: latencies.size(), print_stats(latencies), return 0
MainReport ==
    /\ mpc = "report"
    /\ mpc' = "return"
    /\ MainFrame
    /\ UNCHANGED <<qvars, ppc, cpc, mlocals, g_run, max_collect, isec,
                   exit_code>>

\* main: q goes out of scope, at `return 0` or while an exception unwinds
\* the try block: ~SPSCQueue() frees the buffer; then main returns 0, or the
\* catch clause returns 1.
MainDestroyJoinSkipped ==
    /\ mpc \in {"join_prod", "join_cons", "return", "unwind"}
    /\ qstate' = "destroyed"
    /\ buffer' = << >>
    /\ exit_code' = (IF mpc = "unwind" THEN 1 ELSE 0)
    /\ mpc' = "exit"
    /\ MainFrame
    /\ UNCHANGED <<requested, capacity, mask, head, tail>>
    /\ UNCHANGED <<ppc, cpc, mlocals, g_run, max_collect, isec>>

MainDestroy ==
    /\ mpc \in {"return", "unwind"}
    /\ qstate' = "destroyed"
    /\ buffer' = << >>
    /\ exit_code' = (IF mpc = "return" THEN 0 ELSE 1)
    /\ mpc' = "exit"
    /\ MainFrame
    /\ UNCHANGED <<requested, capacity, mask, head, tail>>
    /\ UNCHANGED <<ppc, cpc, mlocals, g_run, max_collect, isec>>

MainThread ==
    \/ MainConstruct \/ MainStartProducer \/ MainStartConsumer
    \/ MainMonitorCheck \/ ApproxSize \/ MainMonitorPrint
    \/ MainStop \/ MainJoinProducer \/ MainJoinConsumer \/ MainReport
    \/ MainDestroy

\* ------------------------------------------------------- main's command line
\* An argument as the conversions of main see it: text that does not start a
\* number, or a number, given by its value div 2^32 (hi) and mod 2^32 (lo).
Text == [kind |-> "text", hi |-> 0, lo |-> 0]
Num(h, l) == [kind |-> "num", hi |-> h, lo |-> l]

\* The arguments the model gives to main: for each of the three, text, a
\* value below the range, values in it, a value above it, and a value that
\* does not fit 32 bits.
RateArgs ==
    {Text, Num(0, 0), Num(0, MaxRate), Num(0, RateLimit + 1), Num(1, 1)}
SecondsArgs ==
    {Text, Num(0, 0), Num(0, MaxSeconds), Num(0, SecondsLimit + 1), Num(1, 1)}
PowArgs ==
    {Text, Num(0, PowMin - 1), Num(0, PowMin), Num(0, PowMax),
     Num(0, PowMax + 1), Num(1, PowMin)}
CommandLines ==
    {<< >>} \cup {<<r>> : r \in RateArgs}
        \cup {<<r, d>> : r \in RateArgs, d \in SecondsArgs}
        \cup {<<r, d, b>> : r \in RateArgs, d \in SecondsArgs, b \in PowArgs}

\* std::stoull, std::stoul: std::invalid_argument for text; a 64-bit result.
StoullThrows(a) == a.kind = "text"
\* std::stoi: std::invalid_argument for text, std::out_of_range for a value
\* that does not fit int.
StoiThrows(a) == a.kind = "text" \/ a.hi > 0
\* uint32_t pow2 = std::stoul(argv[3]): the conversion keeps the low 32 bits.
Narrow32(a) == a.lo

\* msgs_per_sec == 0 || msgs_per_sec > 10000000
RateRejected(a) == (a.hi = 0 /\ a.lo = 0) \/ a.hi > 0 \/ a.lo > RateLimit
\* total_seconds <= 0 || total_seconds > 3600
SecondsRejected(a) == a.lo <= 0 \/ a.lo > SecondsLimit
\* pow2 < 10 || pow2 > 24
PowRejected(a) == Narrow32(a) < PowMin \/ Narrow32(a) > PowMax

\* buf_pow2 as main passes it to the constructor: 1 << 16, or 1ULL << pow2
\* for the pow2 that the third argument was narrowed to.
BufPow2 ==
    IF Len(argv) >= 3 THEN 2 ^ Narrow32(argv[3]) ELSE 2 ^ DefaultPow

\* main, from its first statement to the construction of the queue: each
\* argument that is present is converted and tested in turn; a failed test
\* returns 1, and an exception of a conversion is caught at the end of main,
\* which returns 1 too.  buf_pow2 = 1 << pow2 is between 2^10 and 2^24 slots;
\* the model builds its queue with `requested` slots instead, a power of two
\* within its bounds.
MainParseArgs ==
    /\ mpc = "parse_args"
    /\ LET argc == Len(argv) + 1
           bad1 == argc >= 2 /\ (StoullThrows(argv[1]) \/ RateRejected(argv[1]))
           bad2 == argc >= 3 /\ (StoiThrows(argv[2]) \/ SecondsRejected(argv[2]))
           bad3 == argc >= 4 /\ (StoullThrows(argv[3]) \/ PowRejected(argv[3]))
       IN  IF bad1 \/ bad2 \/ bad3
           THEN /\ mpc' = "exit"
                /\ exit_code' = 1
                /\ UNCHANGED <<msgs_per_sec, total_seconds>>
           ELSE /\ mpc' = "construct"
                /\ msgs_per_sec' = (IF argc >= 2 THEN argv[1].lo ELSE DefaultRate)
                /\ total_seconds' =
                       (IF argc >= 3 THEN argv[2].lo ELSE DefaultSeconds)
                /\ UNCHANGED exit_code
    /\ UNCHANGED <<qvars, pvars, cvars, mlocals, hvars>>
    /\ UNCHANGED <<g_run, seq, nlat, max_collect, isec, argv, stressN>>

\* main: latencies.reserve(max_samples) or the constructor of std::thread
\* (prod) throws: no thread runs, the exception unwinds the try block.
MainSetupThrows ==
    /\ mpc = "start_prod"
    /\ mpc' = "unwind"
    /\ MainFrame
    /\ UNCHANGED <<qvars, ppc, cpc, mlocals, g_run, max_collect, isec,
                   exit_code>>

\* main: the constructor of std::thread (cons) throws: unwinding destroys
\* prod, which is joinable, and ~thread calls std::terminate: the process is
\* aborted (status 134) with the producer thread wherever it was.
MainStartConsumerThrows ==
    /\ mpc = "start_cons"
    /\ mpc' = "exit"
    /\ exit_code' = 134
    /\ ppc' = "killed"
    /\ MainFrame
    /\ UNCHANGED <<qvars, cpc, mlocals, g_run, max_collect, isec>>

\* ------------------------------------------------------- the stress scenario
\* The producer enqueues the sequence numbers 1..stressN, offering a rejected
\* one again.
StressProducerCall ==
    /\ qstate = "constructed"
    /\ ppc = "idle"
    /\ seq <= stressN
    /\ pitem' = seq
    /\ ppc' = "push_load_tail"
    /\ UNCHANGED <<qvars, pt, pushRes, cvars, mvars, hvars, tvars>>

StressProducerReturn ==
    /\ ppc = "push_ret"
    /\ seq' = (IF pushRes THEN seq + 1 ELSE seq)
    /\ ppc' = (IF seq' > stressN THEN "done" ELSE "idle")
    /\ pt' = 0 /\ pitem' = 0 /\ pushRes' = FALSE
    /\ UNCHANGED <<qvars, cvars, mvars, hvars>>
    /\ UNCHANGED <<g_run, nlat, max_collect, msgs_per_sec, total_seconds, isec,
                   exit_code, argv, stressN>>

\* The consumer polls try_pop and records what it gets (deq) until it has
\* stressN items.
StressConsumerCall ==
    /\ qstate = "constructed"
    /\ cpc = "idle"
    /\ Len(deq) < stressN
    /\ cpc' = "pop_load_head"
    /\ UNCHANGED <<qvars, pvars, ph, out, popRes, mvars, hvars, tvars>>

StressConsumerReturn ==
    /\ cpc = "pop_ret"
    /\ cpc' = (IF Len(deq) >= stressN THEN "done" ELSE "idle")
    /\ ph' = 0 /\ popRes' = FALSE
    /\ UNCHANGED <<qvars, pvars, out, mvars, hvars, tvars>>

StressProducer == StressProducerCall \/ TryPush \/ StressProducerReturn
StressConsumer == StressConsumerCall \/ TryPop \/ StressConsumerReturn

\* ------------------------------------------------------------ specification
\* n is a power of two (and so greater than zero).
IsPowerOfTwo(n) == \E k \in 0..WordBits : n = 2 ^ k

\* The capacities 1 << pow2 the model gives to a harness or a scenario that
\* builds its queue with a power of two.
PowerOfTwoCapacities == {c \in 1..MaxRequested : IsPowerOfTwo(c)}

\* No SPSCQueue object yet.
QueueUnbuilt ==
    /\ qstate = "unbuilt"
    /\ capacity = 0 /\ mask = 0 /\ buffer = << >> /\ head = 0 /\ tail = 0

\* All three threads at the given positions, outside any call.
ThreadsAt(p, c, m) ==
    /\ ppc = p /\ pt = 0 /\ pitem = 0 /\ pushRes = FALSE
    /\ cpc = c /\ ph = 0 /\ out = Whole(Uninit) /\ popRes = FALSE
    /\ mpc = m /\ morder = "tail_first" /\ mfirst = 0 /\ approx = 0
    /\ emptyRes = FALSE /\ capRes = 0 /\ mowner = "other"
    /\ enq = << >> /\ deq = << >>
    /\ g_run = TRUE /\ seq = 1 /\ nlat = 0 /\ max_collect = 0
    /\ isec = 0 /\ exit_code = -1

Init ==
    /\ QueueUnbuilt
    /\ requested \in 0..MaxRequested
    /\ ThreadsAt("idle", "idle", "idle")
    /\ msgs_per_sec = 0 /\ total_seconds = 0 /\ stressN = 0
    /\ argv = << >>

\* One producer thread and one consumer thread on one queue.
Next == Construct \/ Producer \/ Consumer

Spec == Init /\ [][Next]_vars

\* The same two threads on a queue built by the constructor of
\* src/unnamed/part_003.
\* A slot copy through a null buffer is undefined: the process is killed, or
\* the copy lands in memory that is not the queue's; either way the model
\* follows the process no further.
ProducerAtNull ==
    buffer = NullBuffer /\ capacity >= 1
        /\ ppc \in {"push_write_lo", "push_write_hi"}

ConsumerAtNull ==
    buffer = NullBuffer /\ capacity >= 1
        /\ cpc \in {"pop_read_lo", "pop_read_hi"}

NullAccess ==
    /\ qstate = "constructed"
    /\ ProducerAtNull \/ ConsumerAtNull
    /\ qstate' \in {"killed", "corrupted"}
    /\ UNCHANGED <<requested, capacity, mask, buffer, head, tail>>
    /\ UNCHANGED <<pvars, cvars, mvars, hvars, tvars>>

NextUnchecked ==
    \/ ConstructUnchecked
    \/ qstate = "constructed" /\ ~ProducerAtNull /\ Producer
    \/ qstate = "constructed" /\ ~ConsumerAtNull /\ Consumer
    \/ NullAccess

SpecUnchecked == Init /\ [][NextUnchecked]_vars

\* The same, with a third thread that calls approx_size.
NextMonitor == Construct \/ Producer \/ Consumer \/ Monitor

SpecMonitor == Init /\ [][NextMonitor]_vars

\* The two threads on a power-of-two queue, and a third thread that calls
\* approx_size, empty and get_capacity at any moment.  The producer offers
\* sequence numbers up to MaxObservedSeq.
ObservedInit ==
    /\ QueueUnbuilt
    /\ requested \in PowerOfTwoCapacities
    /\ ThreadsAt("idle", "idle", "idle")
    /\ msgs_per_sec = 0 /\ total_seconds = 0 /\ stressN = 0
    /\ argv = << >>

ObservedProducer ==
    /\ ppc = "idle" => Len(enq) < MaxObservedSeq
    /\ Producer

NextObserved == Construct \/ ObservedProducer \/ Consumer \/ Observer

SpecObserved == ObservedInit /\ [][NextObserved]_vars

\* The two threads on a power-of-two queue for long enough that head and
\* tail wrap: the producer offers the sequence numbers 1..Word + MaxPastWrap.
WrapProducerCall ==
    /\ qstate = "constructed"
    /\ ppc = "idle"
    /\ Len(enq) < Word + MaxPastWrap
    /\ pitem' = Len(enq) + 1
    /\ ppc' = "push_load_tail"
    /\ UNCHANGED <<qvars, pt, pushRes, cvars, mvars, hvars, tvars>>

WrapProducer == WrapProducerCall \/ TryPush \/ ProducerReturn

NextWrap == Construct \/ WrapProducer \/ Consumer

SpecWrap == ObservedInit /\ [][NextWrap]_vars

\* The producer thread and the consumer thread call the accessors
\* themselves, between their own operations, while the other thread runs.
\* The calling thread is inside the accessor until it returns, holds the
\* returned value through the try_push or try_pop it calls next, and lets go
\* of it together with that call's result (or before calling anything).
OwnerInside(th) == mowner = th /\ mpc \notin AccessorRets \cup {"idle"}
OwnerHolds(th) == mowner = th /\ mpc \in AccessorRets

OwnerAccessorCall ==
    /\ qstate = "constructed"
    /\ mpc = "idle"
    /\ \E th \in {"producer", "consumer"} :
         /\ IF th = "producer" THEN ppc = "idle" ELSE cpc = "idle"
         /\ mowner' = th
    /\ mpc' \in AccessorEntries
    /\ UNCHANGED <<qvars, pvars, cvars, morder, mfirst, approx, emptyRes,
                   capRes, hvars, tvars>>

OwnerLetGo ==
    /\ mpc \in AccessorRets
    /\ \/ /\ mowner = "producer" /\ ppc \in {"idle", "push_ret"}
          /\ ppc' = "idle" /\ pt' = 0 /\ pitem' = 0 /\ pushRes' = FALSE
          /\ UNCHANGED cvars
       \/ /\ mowner = "consumer" /\ cpc \in {"idle", "pop_ret"}
          /\ cpc' = "idle" /\ ph' = 0 /\ popRes' = FALSE
          /\ UNCHANGED <<pvars, out>>
    /\ mpc' = "idle" /\ morder' = "tail_first" /\ mfirst' = 0 /\ approx' = 0
    /\ emptyRes' = FALSE /\ capRes' = 0 /\ mowner' = "other"
    /\ UNCHANGED <<qvars, hvars, tvars>>

OwnerProducer ==
    /\ ~OwnerInside("producer")
    /\ ppc = "push_ret" => ~OwnerHolds("producer")
    /\ ObservedProducer

OwnerConsumer ==
    /\ ~OwnerInside("consumer")
    /\ cpc = "pop_ret" => ~OwnerHolds("consumer")
    /\ Consumer

NextOwner ==
    \/ Construct
    \/ OwnerProducer \/ OwnerConsumer
    \/ OwnerAccessorCall \/ Accessors \/ OwnerLetGo

SpecOwner == ObservedInit /\ [][NextOwner]_vars

\* Calls made one at a time: a call starts and runs only while the other
\* thread is outside any call.
NextSeq ==
    \/ Construct
    \/ (cpc = "idle" /\ Producer)
    \/ (ppc = "idle" /\ Consumer)

SpecSeq == Init /\ [][NextSeq]_vars

\* A single thread makes every call, one after the other.  The value an
\* accessor returned stays with the thread through the try_push or try_pop
\* it calls next (mpc stays at the accessor's return while that call runs)
\* and is let go of together with that call's result.
SingleProducer ==
    /\ cpc = "idle"
    /\ \/ mpc \in AccessorRets \cup {"idle"} /\ (ProducerCall \/ TryPush)
       \/ mpc = "idle" /\ ProducerReturn

SingleConsumer ==
    /\ ppc = "idle"
    /\ \/ mpc \in AccessorRets \cup {"idle"} /\ (ConsumerCall \/ TryPop)
       \/ mpc = "idle" /\ ConsumerReturn

SingleObserver == ppc = "idle" /\ cpc = "idle" /\ Observer

SingleLetGo ==
    /\ mpc \in AccessorRets
    /\ ppc = "push_ret" \/ cpc = "pop_ret"
    /\ ppc' = "idle" /\ pt' = 0 /\ pitem' = 0 /\ pushRes' = FALSE
    /\ cpc' = "idle" /\ ph' = 0 /\ popRes' = FALSE
    /\ mpc' = "idle" /\ morder' = "tail_first" /\ mfirst' = 0 /\ approx' = 0
    /\ emptyRes' = FALSE /\ capRes' = 0 /\ UNCHANGED mowner
    /\ UNCHANGED <<qvars, out, hvars, tvars>>

NextSingle ==
    Construct \/ SingleProducer \/ SingleConsumer \/ SingleObserver \/ SingleLetGo

SpecSingle == Init /\ [][NextSingle]_vars

\* The stress scenario: both threads scheduled again and again.
StressInit ==
    /\ QueueUnbuilt
    /\ requested \in PowerOfTwoCapacities
    /\ ThreadsAt("idle", "idle", "idle")
    /\ msgs_per_sec = 0 /\ total_seconds = 0
    /\ stressN \in 1..MaxSeq
    /\ argv = << >>

StressNext == Construct \/ StressProducer \/ StressConsumer

SpecStress ==
    /\ StressInit
    /\ [][StressNext]_vars
    /\ WF_vars(StressProducer)
    /\ WF_vars(StressConsumer)

\* The benchmark: main after its arguments were parsed and validated, the
\* producer and the consumer thread, and a SIGINT at any moment.
HarnessInit ==
    /\ QueueUnbuilt
    /\ requested \in PowerOfTwoCapacities
    /\ ThreadsAt("not_started", "not_started", "construct")
    /\ msgs_per_sec \in 1..MaxRate
    /\ total_seconds \in 1..MaxSeconds
    /\ stressN = 0
    /\ argv = << >>

HarnessNext == MainThread \/ ProducerThread \/ ConsumerThread \/ SigInt

SpecHarness == HarnessInit /\ [][HarnessNext]_vars

\* The benchmark from the first statement of main, with any command line of
\* the model, and with the exceptions that the start of the threads can
\* throw.
MainInit ==
    /\ QueueUnbuilt
    /\ requested \in PowerOfTwoCapacities
    /\ ThreadsAt("not_started", "not_started", "parse_args")
    /\ msgs_per_sec = 0 /\ total_seconds = 0
    /\ stressN = 0
    /\ argv \in CommandLines

MainNext ==
    MainParseArgs \/ MainSetupThrows \/ MainStartConsumerThrows \/ HarnessNext

SpecMain == MainInit /\ [][MainNext]_vars

\* The three threads are operating-system threads: each keeps being scheduled.
SpecHarnessFair ==
    /\ SpecHarness
    /\ WF_vars(MainThread)
    /\ WF_vars(ProducerThread)
    /\ WF_vars(ConsumerThread)

\* The benchmark while it runs: main builds the queue, starts the two
\* threads and sleeps in its monitor loop; a SIGINT can arrive at any moment.
\* main gets through the start of the threads, and the producer and the
\* consumer thread keep being scheduled; nothing is assumed about when main
\* wakes up or whether a signal arrives.
MainStartup == MainConstruct \/ MainStartProducer \/ MainStartConsumer

RunningNext == MainStartup \/ ProducerThread \/ ConsumerThread \/ SigInt

SpecRunning ==
    /\ HarnessInit
    /\ [][RunningNext]_vars
    /\ WF_vars(MainStartup)
    /\ WF_vars(ProducerThread)
    /\ WF_vars(ConsumerThread)

\* ------------------------------------------------------------------ properties
\* A queue exists and was built with a power-of-two capacity.
ValidQueue == qstate = "constructed" /\ IsPowerOfTwo(capacity)

\* C1: for a queue built with a power-of-two capacity, in every reachable
\* state, also in the middle of a try_push or a try_pop, tail is not behind
\* head and tail - head is at most the capacity.
CapacityInvariant ==
    ValidQueue =>
        /\ tail >= head
        /\ tail - head <= capacity
        /\ Sub(tail, head) <= capacity

\* A full queue of capacity 4 that has already been popped from, with both
\* threads in the middle of a call.
CapacityWitness ==
    /\ ValidQueue /\ capacity = 4
    /\ head > 0 /\ tail - head = capacity
    /\ ppc = "push_check" /\ cpc = "pop_read_hi"

\* C2: the values delivered by the successful try_pop calls are, in order,
\* the items of the first successful try_push calls: the k-th pop returns the
\* k-th pushed item, whole, and sequence numbers go up by one per pop.
FifoOrder ==
    ValidQueue =>
        /\ Len(deq) <= Len(enq)
        /\ \A k \in 1..Len(deq) :
             /\ deq[k] = Whole(enq[k])
             /\ k > 1 => deq[k].lo = deq[k - 1].lo + 1

\* Three items were delivered through two slots while more were waiting.
FifoWitness ==
    /\ ValidQueue /\ capacity = 2
    /\ Len(deq) >= 3 /\ Len(enq) > Len(deq)

\* C4: the consumer never copies a slot out while the producer is copying
\* into it, and from the moment try_pop has seen tail # h the slot of cursor
\* h holds, whole, the item of the push that moved tail from h to h + 1; what
\* it copies out is that item.
NoTornReads ==
    ValidQueue =>
        /\ ~ /\ cpc \in {"pop_read_lo", "pop_read_hi"}
             /\ ppc \in {"push_write_lo", "push_write_hi"}
             /\ PopSlot = PushSlot
        /\ cpc \in {"pop_read_lo", "pop_read_hi", "pop_store_head"} =>
             /\ Len(enq) >= ph + 1
             /\ buffer[PopSlot] = Whole(enq[ph + 1])
        /\ cpc = "pop_store_head" => out = Whole(enq[ph + 1])

\* The consumer is half way through a copy out while the producer is half way
\* through a copy in.
NoTornReadsWitness ==
    /\ ValidQueue /\ capacity >= 2
    /\ cpc = "pop_read_hi" /\ ppc = "push_write_hi"

\* C5: while the producer copies into a slot, that slot holds no item that
\* is still to be delivered, and every pushed item stays whole in its slot
\* until the try_pop that delivers it has copied it out and stored head.
NoOverwriteBeforeRead ==
    ValidQueue =>
        /\ ppc \in {"push_write_lo", "push_write_hi"} =>
             \A k \in (Len(deq) + 1)..Len(enq) : Index(k - 1) # PushSlot
        /\ \A k \in (Len(deq) + 1)..Len(enq) :
             buffer[Index(k - 1)] = Whole(enq[k])

\* The producer is overwriting a slot that held an earlier item while the
\* consumer is copying another one out.
NoOverwriteWitness ==
    /\ ValidQueue /\ capacity = 2
    /\ ppc = "push_write_hi" /\ pt >= capacity
    /\ cpc = "pop_read_hi"

\* C7: construction succeeds only for a capacity that is a power of two
\* (and so not zero), and for any other capacity it fails with
\* std::invalid_argument (unless the allocation failed first).
PowerOfTwoRejection ==
    qstate # "unbuilt" =>
        /\ qstate = "constructed" => IsPowerOfTwo(requested)
        /\ ~IsPowerOfTwo(requested) /\ qstate # "bad_alloc" =>
             qstate = "invalid_argument"

\* C10: try_pop returns true only for an item that was pushed: never before
\* the first successful try_push, never while head = tail, and the value it
\* delivers is the pushed item whose turn it is.
NoPhantomReads ==
    ValidQueue =>
        /\ Len(deq) <= Len(enq)
        /\ cpc = "pop_ret" /\ Len(enq) = 0 => ~popRes
        /\ cpc = "pop_ret" /\ ph = tail => ~popRes
        /\ cpc = "pop_ret" /\ popRes =>
             /\ Len(deq) >= 1
             /\ out = Whole(enq[Len(deq)])

\* try_pop found the queue empty after everything pushed had been popped.
NoPhantomWitness ==
    /\ ValidQueue
    /\ cpc = "pop_ret" /\ ~popRes
    /\ Len(enq) >= 2 /\ Len(deq) = Len(enq)

\* C6: approx_size, called by a third thread while the producer and the
\* consumer run, loading tail first and head second, returns a value within
\* [0, capacity].
ApproxSizeInRange ==
    ValidQueue /\ mpc = "approx_ret" /\ morder = "tail_first" =>
        approx >= 0 /\ approx <= capacity

\* C8: once the run flag is false, the producer thread and the consumer
\* thread both leave their loops, whatever the state of the queue, and main
\* gets through prod.join() and cons.join() and returns.
CooperativeShutdown ==
    (~g_run /\ qstate = "constructed") ~>
        (ppc = "done" /\ cpc = "done" /\ mpc = "exit")

\* C9: starting from an empty queue of capacity C and with no try_pop
\* running during a try_push, the first C try_push calls return true, a
\* try_push after them returns false while nothing has been popped, and
\* once one try_pop has succeeded the next try_push returns true.
Saturation ==
    ValidQueue /\ ppc = "push_ret" =>
        LET before == Len(enq) - (IF pushRes THEN 1 ELSE 0)
        IN  /\ Len(deq) = 0 /\ before < capacity => pushRes
            /\ Len(deq) = 0 /\ before = capacity => ~pushRes
            /\ Len(deq) = 1 /\ before = capacity => pushRes

\* On a queue of capacity 4, the fifth item went in after four pushes and
\* one pop.
SaturationWitness ==
    /\ ValidQueue /\ capacity = 4
    /\ ppc = "push_ret" /\ pushRes
    /\ Len(enq) = 5 /\ Len(deq) = 1

\* Both threads of the stress scenario have finished and the consumer has
\* recorded exactly 1..stressN.
StressDone ==
    /\ ppc = "done" /\ cpc = "done"
    /\ deq = [k \in 1..stressN |-> Whole(k)]

\* C3: in the stress scenario, under fair scheduling, both threads finish
\* and from then on the consumer's record is exactly 1..N: no duplicate, no
\* gap, for every N and every power-of-two capacity of the model.
StressDelivery == (qstate = "constructed") ~> []StressDone

\* The scenario ended with more items delivered than the queue has slots.
StressWitness ==
    /\ qstate = "constructed" /\ capacity = 2
    /\ stressN > 2 * capacity
    /\ StressDone

\* C11: in a single-threaded sequence of calls, when approx_size() returned
\* a value below the capacity, the try_push called right after it returns
\* true and has stored its item: the item is in the slot of the old tail and
\* tail has moved past it.
NoLossUnderRoom ==
    ValidQueue /\ mpc = "approx_ret" /\ ppc = "push_ret" /\ approx < capacity =>
        /\ pushRes
        /\ buffer[PushSlot] = Whole(pitem)
        /\ tail = Inc(pt)
        /\ Len(enq) >= 1 /\ enq[Len(enq)] = pitem

\* approx_size() returned capacity - 1 on a queue of capacity 4 that had
\* been popped from, and the push after it took the last free slot.
NoLossWitness ==
    /\ ValidQueue /\ capacity = 4 /\ head > 0
    /\ mpc = "approx_ret" /\ approx = capacity - 1
    /\ ppc = "push_ret" /\ pushRes

\* C12: a try_push that finds the queue full (tail - head = capacity when it
\* loads head) returns false, and no step of it, the load of tail and the
\* test, changes head, tail, a slot or anything else of the queue.
FullPushFrame ==
    [][ /\ ValidQueue /\ Sub(tail, head) = capacity
        /\ ppc \in {"push_load_tail", "push_check"} /\ ppc' # ppc
        => /\ UNCHANGED <<qvars, out, hvars>>
           /\ ppc = "push_check" => ppc' = "push_ret" /\ pushRes' = FALSE ]_vars

\* try_push has returned false on a full queue of capacity 2 whose slots
\* had all been used before.
FullPushWitness ==
    /\ ValidQueue /\ capacity = 2
    /\ head >= capacity /\ Sub(tail, head) = capacity
    /\ ppc = "push_ret" /\ ~pushRes

\* C13: a try_pop that finds the queue empty (head = tail when it loads
\* tail) returns false, and no step of it changes out, head, tail or a slot;
\* out changes only in the copy steps of a try_pop, which come after the
\* emptiness test has passed, and a try_pop that has passed the test returns
\* true.
EmptyPopFrame ==
    [][ ValidQueue =>
          /\ head = tail /\ cpc \in {"pop_load_head", "pop_check"} /\ cpc' # cpc
               => /\ UNCHANGED <<qvars, out, hvars>>
                  /\ cpc = "pop_check" => cpc' = "pop_ret" /\ popRes' = FALSE
          /\ out' # out => cpc \in {"pop_read_lo", "pop_read_hi"} /\ cpc' # cpc
          /\ cpc = "pop_check" /\ cpc' = "pop_ret" => ~popRes' /\ out' = out
          /\ cpc \in {"pop_read_lo", "pop_read_hi", "pop_store_head"}
               /\ cpc' = "pop_ret" => popRes' ]_vars

\* try_pop has returned false on an emptied queue, and out still holds the
\* item the try_pop before it delivered.
EmptyPopWitness ==
    /\ ValidQueue
    /\ Len(deq) >= 2 /\ head = tail
    /\ cpc = "pop_ret" /\ ~popRes
    /\ out = deq[Len(deq)]

\* A thread is inside try_push, inside try_pop: called and not yet returned.
InPush == ppc \in {PushPath[j] : j \in 1..(Len(PushPath) - 1)}
InPop == cpc \in {PopPath[j] : j \in 1..(Len(PopPath) - 1)}

\* C14: try_push and try_pop never wait: whatever the other thread has done
\* and wherever it stands (it may never take another step), a thread inside
\* a call can take its next step, and every step takes the call strictly
\* forward along its fixed path, so a call returns within Len(PushPath) - 1
\* (Len(PopPath) - 1) of its own steps, with true or with false.
WaitFree ==
    /\ [](InPush => ENABLED TryPush)
    /\ [](InPop => ENABLED TryPop)
    /\ [][ /\ InPush /\ ppc' # ppc => PushRank(ppc') > PushRank(ppc)
           /\ InPop /\ cpc' # cpc => PopRank(cpc') > PopRank(cpc) ]_vars

\* try_push has returned false on a full queue while the consumer stands in
\* the middle of copying an item out.
WaitFreeWitness ==
    /\ ValidQueue /\ Sub(tail, head) = capacity
    /\ ppc = "push_ret" /\ ~pushRes
    /\ cpc = "pop_read_hi"

\* C15: a queue can be built with capacity 1 (the constructor's assertion
\* passes); it never holds more than one item, successful pushes and pops
\* alternate starting with a push (the pushes are never behind the pops and
\* never more than one ahead), and the k-th pop delivers the k-th pushed
\* item, which is the one pushed just before it.
SingleSlotHandoff ==
    requested = 1 /\ qstate # "unbuilt" =>
        /\ qstate \in {"constructed", "bad_alloc"}
        /\ qstate = "constructed" =>
             /\ capacity = 1 /\ mask = 0
             /\ Sub(tail, head) \in {0, 1}
             /\ Len(enq) - Len(deq) \in {0, 1}
             /\ \A k \in 1..Len(deq) : deq[k] = Whole(enq[k])

\* The fourth item is in the one slot and is being copied out, after three
\* handoffs.
SingleSlotWitness ==
    /\ qstate = "constructed" /\ capacity = 1
    /\ Len(enq) = 4 /\ Len(deq) = 3
    /\ cpc = "pop_read_hi"

\* C16: on a constructed queue, tail is stored only by the store step of
\* try_push and head only by the store step of try_pop; no step of try_push
\* changes head or the consumer's out, and no step of try_pop changes tail
\* or a slot of the buffer.
CursorOwnership ==
    [][ qstate = "constructed" =>
          /\ tail' # tail =>
               ppc = "push_store_tail" /\ ppc' # ppc /\ cpc' = cpc
          /\ head' # head =>
               cpc = "pop_store_head" /\ cpc' # cpc /\ ppc' = ppc
          /\ ppc' # ppc => head' = head /\ out' = out
          /\ cpc' # cpc => tail' = tail /\ buffer' = buffer ]_vars

\* Both cursors have moved and each thread stands at the store of its own.
CursorOwnershipWitness ==
    /\ ValidQueue /\ head > 0 /\ tail > head
    /\ ppc = "push_store_tail" /\ cpc = "pop_store_head"

\* C17: when aligned_alloc returns null the construction fails, so a queue
\* that was constructed with a capacity of at least 1 has its storage, and
\* no try_push copies into, and no try_pop copies out of, a null buffer.
AllocationFailFast ==
    qstate = "constructed" /\ capacity >= 1 =>
        /\ buffer # NullBuffer
        /\ ppc \in {"push_write_lo", "push_write_hi"} => buffer # NullBuffer
        /\ cpc \in {"pop_read_lo", "pop_read_hi"} => buffer # NullBuffer

\* An argument is a number within [min, max], as typed.
ArgInRange(a, min, max) ==
    a.kind = "num" /\ a.hi = 0 /\ a.lo >= min /\ a.lo <= max

\* Every argument that is present is within the range the usage text gives.
CommandLineValid ==
    /\ Len(argv) >= 1 => ArgInRange(argv[1], 1, RateLimit)
    /\ Len(argv) >= 2 => ArgInRange(argv[2], 1, SecondsLimit)
    /\ Len(argv) >= 3 => ArgInRange(argv[3], PowMin, PowMax)

\* C18: for a command line with an argument that is not a number or is
\* outside its range, main returns 1 and no queue was constructed and no
\* thread started; a run with a valid command line whose threads were
\* joined returns 0.
ArgsValidatedFirst ==
    /\ ~CommandLineValid /\ mpc # "parse_args" =>
         /\ mpc = "exit" /\ exit_code = 1
         /\ qstate = "unbuilt"
         /\ ppc = "not_started" /\ cpc = "not_started"
    /\ CommandLineValid /\ mpc = "exit" /\ ppc = "done" /\ cpc = "done" =>
         exit_code = 0

\* C19: the queue is destroyed, and its buffer freed, only with no thread
\* that uses it left: the producer and the consumer thread were both never
\* started or have both returned (and main has joined them), and main is
\* past its last call of approx_size; nobody is inside or enters try_push,
\* try_pop or approx_size from then on.
DestroyAfterJoin ==
    qstate = "destroyed" =>
        /\ ppc \in {"not_started", "done"}
        /\ cpc = ppc
        /\ mpc = "exit"

\* The benchmark ran, items went through the queue, both threads were
\* joined, the queue was destroyed and main returned 0.
DestroyAfterJoinWitness ==
    /\ qstate = "destroyed" /\ buffer = << >>
    /\ ppc = "done" /\ cpc = "done"
    /\ Len(deq) >= 2
    /\ exit_code = 0

\* C20: a queue constructed with capacity C has capacity C and mask C - 1,
\* and until the first try_push has stored tail, head and tail are 0,
\* approx_size() returns 0, empty() returns true, get_capacity() returns C
\* and try_pop returns false.
InitialState ==
    qstate = "constructed" /\ Len(enq) = 0 =>
        /\ head = 0 /\ tail = 0
        /\ capacity = requested /\ mask = Sub(requested, 1)
        /\ mpc = "approx_ret" => approx = 0
        /\ mpc = "empty_ret" => emptyRes
        /\ mpc = "cap_ret" => capRes = requested
        /\ cpc = "pop_ret" => ~popRes

\* On a new queue of capacity 4, empty() has returned true and the try_pop
\* called after it has returned false.
InitialStateWitness ==
    /\ qstate = "constructed" /\ capacity = 4 /\ Len(enq) = 0
    /\ mpc = "empty_ret" /\ emptyRes
    /\ cpc = "pop_ret" /\ ~popRes

\* C21: on a constructed queue tail is the number of try_push calls that
\* have stored tail (each of them returns true) and head is the number of
\* try_pop calls that have stored head; a call that returns true has moved
\* its cursor from the value it loaded to that value plus 1, a call that
\* returns false has left it where it was, and no step moves a cursor
\* otherwise than up by 1.
CursorsCount ==
    /\ [](qstate = "constructed" =>
            /\ tail = Len(enq) /\ head = Len(deq)
            /\ ppc = "push_ret" => tail = (IF pushRes THEN Inc(pt) ELSE pt)
            /\ cpc = "pop_ret" => head = (IF popRes THEN Inc(ph) ELSE ph))
    /\ [][ qstate = "constructed" =>
             /\ tail' = tail \/ (tail' = Inc(tail) /\ tail' > tail)
             /\ head' = head \/ (head' = Inc(head) /\ head' > head) ]_vars

\* Five pushes and three pops have succeeded on a queue of capacity 2, and
\* a sixth push has just been turned away.
CursorsCountWitness ==
    /\ ValidQueue /\ capacity = 2
    /\ tail = 5 /\ head = 3
    /\ ppc = "push_ret" /\ ~pushRes

\* C22: with no try_push and no try_pop in progress, approx_size() returns
\* the number of successful pushes minus the number of successful pops, and
\* empty() returns true exactly when that number is 0, so empty() says what
\* approx_size() == 0 says.
QuiescentAccessors ==
    qstate = "constructed" /\ ppc = "idle" /\ cpc = "idle" =>
        /\ mpc = "approx_ret" => approx = Len(enq) - Len(deq)
        /\ mpc = "empty_ret" => (emptyRes <=> Len(enq) - Len(deq) = 0)
        /\ mpc = "empty_ret" => (emptyRes <=> Sub(tail, head) = 0)

\* approx_size(), loading head first, has returned 2 on a queue that five
\* items had gone into and three had come out of.
QuiescentWitness ==
    /\ ValidQueue /\ ppc = "idle" /\ cpc = "idle"
    /\ Len(enq) = 5 /\ Len(deq) = 3
    /\ mpc = "approx_ret" /\ morder = "head_first" /\ approx = 2

\* C23: on a queue of power-of-two capacity, in every reachable state the
\* test of the code, (tail + 1) - head > capacity, says what the test of the
\* specification, tail - head = capacity, says, also for the tail a try_push
\* has loaded; every test step of try_push is the step the specification's
\* test would take, and tail - head never exceeds the capacity.
FullnessTestsAgree ==
    /\ [](ValidQueue =>
            /\ IsFull(Inc(tail), head) <=> IsFullBySpec(tail, head)
            /\ ppc = "push_check" =>
                 (IsFull(Inc(pt), head) <=> IsFullBySpec(pt, head))
            /\ Sub(tail, head) <= capacity)
    /\ [][ValidQueue /\ PushCheck => PushCheckBySpec]_vars

\* try_push is at its test on a full queue of capacity 4 whose cursors have
\* moved on from 0: both tests say full.
FullnessTestsWitness ==
    /\ ValidQueue /\ capacity = 4 /\ head > 0
    /\ ppc = "push_check"
    /\ IsFull(Inc(pt), head) /\ IsFullBySpec(pt, head)

\* C24: under any interleaving, a try_push returns false exactly when
\* tail - head = capacity at the step at which it loads head, and a try_pop
\* returns false exactly when head = tail at the step at which it loads
\* tail; a call that got past its test returns true.
NoSpuriousFailure ==
    [][ ValidQueue =>
          /\ ppc = "push_check" /\ ppc' # ppc =>
               IF Sub(tail, head) = capacity
               THEN ppc' = "push_ret" /\ ~pushRes'
               ELSE ppc' # "push_ret"
          /\ ppc # "push_ret" /\ ppc' = "push_ret" =>
               (pushRes' <=> ppc # "push_check")
          /\ cpc = "pop_check" /\ cpc' # cpc =>
               IF head = tail
               THEN cpc' = "pop_ret" /\ ~popRes'
               ELSE cpc' # "pop_ret"
          /\ cpc # "pop_ret" /\ cpc' = "pop_ret" =>
               (popRes' <=> cpc # "pop_check") ]_vars

\* A try_push was turned away by a full queue, and before it was called
\* again the consumer emptied the queue and its next try_pop was turned away.
NoSpuriousWitness ==
    /\ ValidQueue /\ capacity = 2
    /\ ppc = "push_ret" /\ ~pushRes
    /\ cpc = "pop_ret" /\ ~popRes
    /\ Len(deq) >= capacity

\* C25: approx_size, empty and get_capacity change neither head, tail, the
\* buffer, capacity or mask nor anything a try_push or try_pop in progress
\* holds, whatever the other two threads are doing; capacity and mask never
\* change after construction, mask = capacity - 1, and get_capacity returns
\* the capacity the queue was constructed with.
AccessorsReadOnly ==
    /\ [](qstate = "constructed" =>
            /\ capacity = requested
            /\ mask = capacity - 1
            /\ mpc = "cap_ret" => capRes = requested)
    /\ [][ /\ mvars' # mvars => UNCHANGED <<qvars, pvars, cvars, hvars>>
           /\ qstate = "constructed" =>
                 /\ qstate' = "constructed"
                 /\ capacity' = capacity /\ mask' = mask ]_vars

\* get_capacity has returned while a try_push and a try_pop are both in the
\* middle of a slot copy, after items went through the queue.
AccessorsReadOnlyWitness ==
    /\ ValidQueue /\ capacity = 2
    /\ mpc = "cap_ret" /\ capRes = 2
    /\ ppc = "push_write_hi" /\ cpc = "pop_read_hi"
    /\ Len(deq) >= 1

\* C26: with calls made one after the other, a try_push(x) called on an
\* empty queue (head = tail) returns true, and the try_pop called next
\* returns true with out = x and leaves the queue empty, head and tail both
\* one past where they were.
RoundTripOnEmpty ==
    ValidQueue =>
        /\ ppc = "push_ret" /\ Len(deq) = pitem - 1 =>
              /\ pushRes
              /\ Len(enq) = pitem /\ enq[pitem] = pitem
              /\ head = Len(deq) /\ tail = Inc(head)
        /\ cpc = "pop_ret" /\ Len(enq) >= 1 =>
              /\ ~popRes => Len(enq) = Len(deq)
              /\ popRes /\ Len(enq) = Len(deq) =>
                    /\ out = Whole(enq[Len(enq)])
                    /\ deq[Len(deq)] = out
                    /\ head = tail /\ tail = Len(enq)

\* On a queue of one slot every accepted try_push found the queue empty: the
\* fourth item went in at head = tail = 3 and came straight back out.
RoundTripWitness ==
    /\ ValidQueue /\ capacity = 1
    /\ cpc = "pop_ret" /\ popRes /\ out = Whole(4)
    /\ Len(enq) = 4 /\ Len(deq) = 4 /\ head = 4 /\ tail = 4

\* C27: producer_thread_func numbers its messages 1, 2, 3, ... and offers a
\* rejected message again, unchanged, until try_push accepts it, before it
\* generates the next one: the sequence numbers enqueued are always exactly
\* 1..k, in that order, however often the queue is full.
ProducerBackpressure ==
    /\ [](/\ enq = [k \in 1..Len(enq) |-> k]
          /\ IF ppc \in {"not_started", "loop", "done"}
             THEN Len(enq) = seq - 1
             ELSE pitem = seq - 1 /\ Len(enq) \in {pitem - 1, pitem})
    /\ [][ /\ ppc = "push_ret" /\ ~pushRes /\ ppc' # ppc =>
                 ppc' = "push_load_tail" /\ pitem' = pitem /\ seq' = seq
           /\ seq' # seq =>
                 seq' = seq + 1 /\ pitem' = seq /\ Len(enq) = seq - 1 ]_vars

\* The one-slot queue was full when message 3 was offered, after messages 1
\* and 2 got in; message 3 is still the producer's message.
BackpressureWitness ==
    /\ ValidQueue /\ capacity = 1
    /\ ppc = "push_ret" /\ ~pushRes /\ pitem = 3
    /\ enq = <<1, 2>> /\ Len(deq) = 1

\* Dequeues whose latency sample consumer_thread_func has dealt with.
SamplesOffered == Len(deq) - (IF cpc = "pop_ret" /\ popRes THEN 1 ELSE 0)

\* C28: consumer_thread_func never holds more than max_collect latency
\* samples; the count grows only after a successful try_pop, by one, and
\* only below max_collect; at max_collect messages are still dequeued and
\* nothing more is recorded.
BoundedSamples ==
    /\ [](/\ nlat <= max_collect
          /\ nlat = (IF SamplesOffered < max_collect THEN SamplesOffered
                                                    ELSE max_collect))
    /\ [][ /\ nlat' # nlat =>
                 /\ nlat' = nlat + 1
                 /\ cpc = "pop_ret" /\ popRes /\ nlat < max_collect
           /\ nlat = max_collect /\ cpc = "pop_ret" /\ cpc' # cpc =>
                 nlat' = nlat /\ cpc' = "loop" ]_vars

\* One sample was allowed and taken; the consumer went on to dequeue the
\* second and the third message.
BoundedSamplesWitness ==
    /\ ValidQueue /\ max_collect = 1 /\ nlat = 1
    /\ Len(deq) = 3 /\ cpc = "loop"

\* C29: whenever main accepts its command line, the queue is constructed with
\* 2^p slots for the p typed as third argument, 10 <= p <= 24, so with a
\* power of two between 2^10 and 2^24; without a third argument it is
\* constructed with 2^16 slots.
HarnessCapacityAsTyped ==
    mpc = "construct" \/ qstate = "constructed" =>
        /\ BufPow2 >= 2 ^ PowMin /\ BufPow2 <= 2 ^ PowMax
        /\ \E p \in PowMin..PowMax : BufPow2 = 2 ^ p
        /\ IF Len(argv) >= 3
           THEN /\ ArgInRange(argv[3], PowMin, PowMax)
                /\ BufPow2 = 2 ^ argv[3].lo
           ELSE BufPow2 = 65536

\* C30: g_run starts true; only the SIGINT handler and main's store after
\* the monitor loop write it, both with false; it never goes back to true,
\* so after a thread has read false (and left its loop) every read returns
\* false.
RunFlagStable ==
    /\ g_run = TRUE
    /\ [](/\ ppc = "done" \/ cpc = "done" => ~g_run
          /\ mpc \in {"join_prod", "join_cons", "report", "return"} => ~g_run)
    /\ [][ /\ g_run' => g_run
           /\ g_run' # g_run =>
                 \/ mpc = "stop" /\ mpc' = "join_prod"
                 \/ UNCHANGED <<qvars, pvars, cvars, mvars, hvars, seq, nlat,
                                max_collect, isec, exit_code>> ]_vars

\* SIGINT cleared the flag during the run: the producer and the consumer have
\* read false and returned while main is still inside its monitor loop.
RunFlagWitness ==
    /\ ~g_run /\ ppc = "done" /\ cpc = "done"
    /\ mpc = "approx_ret" /\ Len(deq) >= 1

\* (tail + 1) - head > C, head == tail and cursor & (C - 1) on cursors of
\* WordBits bits, for every power-of-two C up to Word / 2, every head and
\* every occupancy n <= C: the full test is true exactly at n = C, the empty
\* test exactly at n = 0, and the slot index is the cursor modulo C.
WrapArithmetic ==
    \A c \in {x \in 1..(Word \div 2) : IsPowerOfTwo(x)} :
        \A h \in 0..(Word - 1), n \in 0..c :
            LET t == (h + n) % Word
            IN  /\ (Sub(Inc(t), h) > c) <=> (n = c)
                /\ (h = t) <=> (n = 0)
                /\ Sub(t, h) = n
                /\ BitAnd(t, c - 1) = t % c
                /\ BitAnd(Inc(t), c - 1) = (BitAnd(t, c - 1) + 1) % c

\* C31: with head and tail counting modulo 2^w and a power-of-two capacity,
\* the full test, the empty test, the slot index, FIFO order and the bound
\* (tail - head) mod 2^w <= capacity stay correct while and after the cursors
\* wrap past 2^w - 1.
WrapCorrect ==
    /\ [](ValidQueue =>
            /\ WrapArithmetic
            /\ FifoOrder
            /\ tail = Len(enq) % Word /\ head = Len(deq) % Word
            /\ Sub(tail, head) = Len(enq) - Len(deq)
            /\ Sub(tail, head) <= capacity
            /\ IsEmpty(head, tail) <=> Len(enq) = Len(deq)
            /\ IsFull(Inc(tail), head) <=> Len(enq) - Len(deq) = capacity
            /\ Index(tail) = Len(enq) % capacity
            /\ Index(head) = Len(deq) % capacity)
    /\ [][ ValidQueue =>
             /\ ppc = "push_check" /\ ppc' # ppc =>
                   ((ppc' = "push_ret" /\ ~pushRes')
                        <=> Len(enq) - Len(deq) = capacity)
             /\ cpc = "pop_check" /\ cpc' # cpc =>
                   ((cpc' = "pop_ret" /\ ~popRes')
                        <=> Len(enq) = Len(deq)) ]_vars

\* Past the wrap: Word + 2 items were enqueued, tail has wrapped to 2 while
\* head is still at Word - 2, the queue of four slots is full, and a
\* try_push was turned away.
WrapWitness ==
    /\ ValidQueue /\ capacity = 4
    /\ Len(enq) = Word + 2 /\ tail = 2 /\ head = Word - 2
    /\ ppc = "push_ret" /\ ~pushRes
    /\ deq[Len(deq)] = Whole(Word - 2)

\* C32: approx_size called by the producer thread or by the consumer thread
\* between its own operations, with the other thread running, returns a
\* value within 0..capacity; for the producer the value is at least, for the
\* consumer at most, the number of items in the queue when it returns (and
\* for as long as the caller does nothing else).
OwnerApproxInRange ==
    ValidQueue /\ mpc = "approx_ret" /\ mowner # "other" =>
        /\ approx >= 0 /\ approx <= capacity
        /\ mowner = "producer" /\ ppc = "idle" =>
              approx >= Len(enq) - Len(deq)
        /\ mowner = "consumer" /\ cpc = "idle" =>
              approx <= Len(enq) - Len(deq)

\* The producer's approx_size returned 2 for a full queue of two slots; the
\* consumer has emptied the queue since the call loaded head and is inside
\* another try_pop.
OwnerApproxWitness ==
    /\ ValidQueue /\ capacity = 2
    /\ mowner = "producer" /\ mpc = "approx_ret" /\ ppc = "idle"
    /\ approx = 2 /\ Len(enq) = Len(deq) /\ cpc = "pop_check"

\* C33: after the producer thread saw approx_size() below the capacity, its
\* next try_push returns true, and after the consumer thread saw empty()
\* false or approx_size() above 0, its next try_pop returns true, whatever
\* the other thread did in between.
OwnerObservationStable ==
    ValidQueue =>
        /\ /\ mowner = "producer" /\ ppc = "push_ret"
           /\ mpc = "approx_ret" /\ approx < capacity
           => pushRes
        /\ /\ mowner = "consumer" /\ cpc = "pop_ret"
           /\ \/ mpc = "empty_ret" /\ ~emptyRes
              \/ mpc = "approx_ret" /\ approx > 0
           => popRes

\* The consumer saw empty() false when one item was queued; the producer
\* has enqueued two more by the time the consumer's try_pop returned the
\* first.
OwnerObservationWitness ==
    /\ ValidQueue /\ capacity = 4
    /\ mowner = "consumer" /\ mpc = "empty_ret" /\ ~emptyRes
    /\ mfirst = 1 /\ morder = "tail_first"
    /\ cpc = "pop_ret" /\ popRes /\ out = Whole(1)
    /\ Len(enq) = 3

\* Message k was stored in the queue; message k was delivered.
Enqueued(k) == \E i \in 1..Len(enq) : enq[i] = k
Dequeued(k) == \E i \in 1..Len(deq) : deq[i] = Whole(k)

\* C34: while the run flag stays true and the producer and the consumer
\* thread keep being scheduled, every message producer_thread_func has
\* generated, also one it is offering again to a full queue, is eventually
\* enqueued, and every message enqueued is eventually dequeued by
\* consumer_thread_func.
HarnessProgress ==
    \A k \in 1..MaxHarnessSeq :
        /\ (pitem = k) ~> (Enqueued(k) \/ ~g_run)
        /\ Enqueued(k) ~> (Dequeued(k) \/ ~g_run)

\* With the flag still true, every message went through the one-slot queue,
\* which was full each time the next message was ready before a try_pop.
HarnessProgressWitness ==
    /\ ValidQueue /\ capacity = 1 /\ g_run
    /\ \A k \in 1..MaxHarnessSeq : Enqueued(k) /\ Dequeued(k)
    /\ ppc = "loop" /\ cpc = "pop_ret" /\ ~popRes

\* C35: the latency vector changes only in a step of the consumer thread,
\* and main reads it (latencies.size(), print_stats) only after cons.join()
\* returned: whenever main is at or past its report the consumer thread has
\* returned, and the vector does not change from then on.
NoLatencyRace ==
    /\ [](mpc \in {"report", "return"} => cpc = "done" /\ ppc = "done")
    /\ [][ /\ nlat' # nlat =>
                 /\ cpc = "pop_ret" /\ cpc' = "loop"
                 /\ mpc' = mpc /\ ppc' = ppc
                 /\ mpc \notin {"report", "return", "exit"}
           /\ mpc = "report" /\ mpc' # mpc => cpc = "done" /\ nlat' = nlat
         ]_vars

\* The consumer recorded two samples and returned, main has joined it and is
\* about to read the vector.
NoLatencyRaceWitness ==
    /\ mpc = "report" /\ cpc = "done" /\ nlat = 2 /\ Len(deq) >= 2

\* The cursor values of the items enqueued and not yet dequeued:
\* head, head + 1, ..., tail - 1.
LiveCursors == {(head + j) % Word : j \in 0..(Sub(tail, head) - 1)}

\* C36: on a queue of power-of-two capacity C, cursor & mask is within
\* 0..C-1 for every cursor value and maps the cursor values head <= i < tail
\* to distinct slots, so each item enqueued and not yet dequeued sits in a
\* slot of its own, whole.
DistinctLiveSlots ==
    ValidQueue =>
        /\ \A c \in 0..(Word - 1) :
              Index(c) >= 0 /\ Index(c) <= capacity - 1 /\ Index(c) \in DOMAIN buffer
        /\ \A i, j \in LiveCursors : Index(i) = Index(j) => i = j
        /\ Cardinality({Index(i) : i \in LiveCursors}) = Len(enq) - Len(deq)
        /\ \A j \in 0..(Sub(tail, head) - 1) :
              buffer[Index((head + j) % Word)] = Whole(enq[Len(deq) + j + 1])

\* Four live items across the wrap of the cursors: cursor values Word - 2,
\* Word - 1, 0 and 1 in slots 2, 3, 0 and 1, while the consumer copies the
\* oldest out.
DistinctLiveSlotsWitness ==
    /\ ValidQueue /\ capacity = 4
    /\ head = Word - 2 /\ tail = 2
    /\ LiveCursors = {Word - 2, Word - 1, 0, 1}
    /\ cpc = "pop_read_hi" /\ ppc = "push_check"

====
